---- MODULE Spec2Model ----
(***************************************************************************)
(* Model of main.py, the Streamlit healthcare voice chatbot.               *)
(*                                                                         *)
(* One script run is one pass through main.py from the key check to the    *)
(* end of the typed-text handler.  The three adapters (stt_from_audio,     *)
(* get_response, tts_from_text) are operators over what the external       *)
(* service answers; the controller is a state machine with one step per    *)
(* external call, because those are the only suspension points.            *)
(*                                                                         *)
(* Text is a sequence of one-character strings, bytes are sequences of     *)
(* integers 0..255.                                                        *)
(***************************************************************************)
EXTENDS Integers, Sequences, FiniteSets, TLC

----------------------------------------------------------------------------
(* Bounds *)

\* how far beyond the truncation limit the longest generated reply goes
MaxOver == 4

----------------------------------------------------------------------------
(* Text helpers *)

StartsWith(s, p) == Len(s) >= Len(p) /\ SubSeq(s, 1, Len(p)) = p

\* text[:n]
Prefix(s, n) == SubSeq(s, 1, IF Len(s) < n THEN Len(s) ELSE n)

\* a text of n characters, used for replies of a chosen length
LongText(n) == [i \in 1..n |-> IF i % 3 = 0 THEN "c" ELSE IF i % 3 = 1 THEN "a" ELSE "b"]

\* f"Error generating response: "
ErrGenPrefix == <<"E","r","r","o","r"," ","g","e","n","e","r","a","t","i","n","g"," ",
                  "r","e","s","p","o","n","s","e",":"," ">>
\* f"STT Error: "
ErrSttPrefix == <<"S","T","T"," ","E","r","r","o","r",":"," ">>
\* f"TTS Error: "
ErrTtsPrefix == <<"T","T","S"," ","E","r","r","o","r",":"," ">>

\* str(e) of the exceptions the libraries raise
MsgTimeout == <<"t","i","m","e","d"," ","o","u","t">>
MsgHttp    == <<"H","T","T","P","E","r","r","o","r">>
MsgJson    == <<"J","S","O","N","D","e","c","o","d","e">>
MsgPadding == <<"I","n","c","o","r","r","e","c","t"," ","p","a","d","d","i","n","g">>
MsgQuota   == <<"q","u","o","t","a">>

----------------------------------------------------------------------------
(* base64.b64decode(audio_base64), as binascii.a2b_base64 computes it in    *)
(* its default (non-strict) mode: characters outside the alphabet are       *)
(* skipped, a completed pad sequence ends the scan, a dangling quad raises. *)

B64Alphabet ==
  <<"A","B","C","D","E","F","G","H","I","J","K","L","M","N","O","P",
    "Q","R","S","T","U","V","W","X","Y","Z","a","b","c","d","e","f",
    "g","h","i","j","k","l","m","n","o","p","q","r","s","t","u","v",
    "w","x","y","z","0","1","2","3","4","5","6","7","8","9","+","/">>

B64Pad == "="

IsB64Char(c) == \E i \in 1..64 : B64Alphabet[i] = c

\* table_a2b_base64[c] for a character of the alphabet
B64Val(c) == (CHOOSE i \in 1..64 : B64Alphabet[i] = c) - 1

RECURSIVE a2b_base64(_, _, _, _, _, _)
a2b_base64(s, i, quad_pos, pads, leftchar, out) ==
  IF i > Len(s)
  THEN IF quad_pos # 0
       THEN [ok |-> FALSE, bytes |-> <<>>]
       ELSE [ok |-> TRUE, bytes |-> out]
  ELSE LET ch == s[i] IN
       IF ch = B64Pad
       THEN IF quad_pos >= 2 /\ quad_pos + pads + 1 >= 4
            THEN [ok |-> TRUE, bytes |-> out]
            ELSE a2b_base64(s, i + 1, quad_pos,
                            IF quad_pos >= 2 THEN pads + 1 ELSE pads, leftchar, out)
       ELSE IF ~IsB64Char(ch)
       THEN a2b_base64(s, i + 1, quad_pos, pads, leftchar, out)
       ELSE LET v == B64Val(ch) IN
            CASE quad_pos = 0 -> a2b_base64(s, i + 1, 1, 0, v, out)
              [] quad_pos = 1 -> a2b_base64(s, i + 1, 2, 0, v % 16,
                                            Append(out, ((leftchar * 4) + (v \div 16)) % 256))
              [] quad_pos = 2 -> a2b_base64(s, i + 1, 3, 0, v % 4,
                                            Append(out, ((leftchar * 16) + (v \div 4)) % 256))
              [] quad_pos = 3 -> a2b_base64(s, i + 1, 0, 0, 0,
                                            Append(out, ((leftchar * 64) + v) % 256))

b64decode(s) == a2b_base64(s, 1, 0, 0, 0, <<>>)

\* RFC 4648 encoding of a byte string: the reference the decoding is held to
RECURSIVE RFC4648Encode(_)
RFC4648Encode(b) ==
  IF Len(b) = 0 THEN <<>>
  ELSE IF Len(b) = 1
  THEN << B64Alphabet[(b[1] \div 4) + 1], B64Alphabet[((b[1] % 4) * 16) + 1], B64Pad, B64Pad >>
  ELSE IF Len(b) = 2
  THEN << B64Alphabet[(b[1] \div 4) + 1],
          B64Alphabet[((b[1] % 4) * 16) + (b[2] \div 16) + 1],
          B64Alphabet[((b[2] % 16) * 4) + 1], B64Pad >>
  ELSE << B64Alphabet[(b[1] \div 4) + 1],
          B64Alphabet[((b[1] % 4) * 16) + (b[2] \div 16) + 1],
          B64Alphabet[((b[2] % 16) * 4) + (b[3] \div 64) + 1],
          B64Alphabet[(b[3] % 64) + 1] >>
       \o RFC4648Encode(SubSeq(b, 4, Len(b)))

----------------------------------------------------------------------------
(* What the external services answer *)

\* a requests.Response (or the failure of requests.post itself): status,
\* resp.content, and what resp.json() makes of the body
HttpResponse(neterr, status, content, isjson, has_transcript, transcript, has_text, text, has_audios, audios) ==
  [neterr |-> neterr, status |-> status, content |-> content, isjson |-> isjson,
   has_transcript |-> has_transcript, transcript |-> transcript,
   has_text |-> has_text, text |-> text,
   has_audios |-> has_audios, audios |-> audios]

NetworkError     == HttpResponse(TRUE, 0, <<>>, FALSE, FALSE, <<>>, FALSE, <<>>, FALSE, <<>>)
\* a body that is not JSON: raw bytes
RawBody(st, c)   == HttpResponse(FALSE, st, c, FALSE, FALSE, <<>>, FALSE, <<>>, FALSE, <<>>)
\* a JSON object with none of the fields the adapters look at
EmptyObject(st)  == HttpResponse(FALSE, st, <<123, 125>>, TRUE, FALSE, <<>>, FALSE, <<>>, FALSE, <<>>)
TranscriptBody(st, t) ==
  HttpResponse(FALSE, st, <<123, 116, 125>>, TRUE, TRUE, t, FALSE, <<>>, FALSE, <<>>)
BothBody(st, t, x) ==
  HttpResponse(FALSE, st, <<123, 116, 120, 125>>, TRUE, TRUE, t, TRUE, x, FALSE, <<>>)
AudiosBody(st, a) ==
  HttpResponse(FALSE, st, <<123, 97, 125>>, TRUE, FALSE, <<>>, FALSE, <<>>, TRUE, a)

\* the bytes of a WAV file, as the synthesis service may return them raw
WavBytes == <<82, 73, 70, 70>>

\* audio samples whose encodings the synthesis service returns in `audios`
AudioSamples == { WavBytes, <<255, 0, 63>> }

Hello == <<"h","i">>
Hola  == <<"y","o">>

SttResponses ==
  { NetworkError,
    EmptyObject(500),
    TranscriptBody(304, Hello),
    RawBody(200, WavBytes),
    EmptyObject(200),
    TranscriptBody(200, Hello),
    TranscriptBody(200, <<>>),
    BothBody(200, <<>>, Hola),
    BothBody(200, Hello, Hola) }

TtsResponses ==
  { NetworkError,
    RawBody(500, <<>>),
    RawBody(200, WavBytes),
    EmptyObject(200),
    AudiosBody(200, <<>>),
    AudiosBody(200, << <<"U","k","l">> >>),
    AudiosBody(201, <<RFC4648Encode(<<82, 73>>), RFC4648Encode(<<1>>)>>) }
    \cup { AudiosBody(200, <<RFC4648Encode(b)>>) : b \in AudioSamples }

\* what model.generate_content(prompt) / resp.text does: a completion, or an
\* exception with message `text`
GenOutcome(raised, text) == [raised |-> raised, text |-> text]

----------------------------------------------------------------------------
(* Program constants *)

\* len(text) > 500, text[:500]
TruncLen == 500

Ellipsis == <<".", ".", ".">>

\* the default of tts_from_text's lang parameter
DefaultLang == "bn-IN"

Languages == {"Bengali", "Hindi", "English", "Tamil", "Telugu", "Kannada",
              "Malayalam", "Marathi", "Gujarati", "Punjabi"}

lang_options ==
  [l \in Languages |->
     CASE l = "Bengali"   -> "bn-IN"
       [] l = "Hindi"     -> "hi-IN"
       [] l = "English"   -> "en-IN"
       [] l = "Tamil"     -> "ta-IN"
       [] l = "Telugu"    -> "te-IN"
       [] l = "Kannada"   -> "kn-IN"
       [] l = "Malayalam" -> "ml-IN"
       [] l = "Marathi"   -> "mr-IN"
       [] l = "Gujarati"  -> "gu-IN"
       [] l = "Punjabi"   -> "pa-IN"]

GenOutcomes ==
  { GenOutcome(FALSE, <<"o","k">>),
    GenOutcome(FALSE, LongText(TruncLen)),
    GenOutcome(FALSE, LongText(TruncLen + 1)),
    GenOutcome(FALSE, LongText(TruncLen + MaxOver)),
    GenOutcome(TRUE, MsgQuota) }

----------------------------------------------------------------------------
(* The adapters *)

\* get_response handing back str(e) alone
get_response_bare(user_text, outcome) == outcome.text

\* get_response(user_text): the reply, whatever the generation call did
get_response(user_text, outcome) ==
  IF outcome.raised
  THEN ErrGenPrefix \o outcome.text
  ELSE outcome.text

\* resp.raise_for_status()
raise_for_status(resp) == resp.status >= 400 /\ resp.status < 600

AdapterResult(raised, msg, text, bytes, inputs, target) ==
  [raised |-> raised, msg |-> msg, text |-> text, bytes |-> bytes,
   inputs |-> inputs, target_language_code |-> target]

\* stt_from_audio without resp.raise_for_status()
stt_from_audio_unchecked(audio_bytes, resp) ==
  IF resp.neterr
  THEN AdapterResult(TRUE, ErrSttPrefix \o MsgTimeout, <<>>, <<>>, <<>>, "")
  ELSE IF ~resp.isjson
  THEN AdapterResult(TRUE, ErrSttPrefix \o MsgJson, <<>>, <<>>, <<>>, "")
  ELSE LET transcript == IF resp.has_transcript THEN resp.transcript ELSE <<>>
           text       == IF resp.has_text THEN resp.text ELSE <<>>
       IN  AdapterResult(FALSE, <<>>, IF transcript # <<>> THEN transcript ELSE text,
                         <<>>, <<>>, "")

\* stt_from_audio(audio_bytes): the transcript, or Exception("STT Error: ...")
stt_from_audio(audio_bytes, resp) ==
  IF resp.neterr
  THEN AdapterResult(TRUE, ErrSttPrefix \o MsgTimeout, <<>>, <<>>, <<>>, "")
  ELSE IF raise_for_status(resp)
  THEN AdapterResult(TRUE, ErrSttPrefix \o MsgHttp, <<>>, <<>>, <<>>, "")
  ELSE IF ~resp.isjson
  THEN AdapterResult(TRUE, ErrSttPrefix \o MsgJson, <<>>, <<>>, <<>>, "")
  ELSE LET transcript == IF resp.has_transcript THEN resp.transcript ELSE <<>>
           text       == IF resp.has_text THEN resp.text ELSE <<>>
       IN  AdapterResult(FALSE, <<>>, IF transcript # <<>> THEN transcript ELSE text,
                         <<>>, <<>>, "")

\* truncation that forgets the ellipsis marker
SummarizeNoEllipsis(text) ==
  IF Len(text) > TruncLen
  THEN Prefix(text, TruncLen)
  ELSE text

\* the text placed in payload["inputs"]
Summarize(text) ==
  IF Len(text) > TruncLen
  THEN Prefix(text, TruncLen) \o Ellipsis
  ELSE text

\* the shape check and decode of the synthesis response
DecodeAudio(resp, inputs, lang) ==
  IF ~resp.isjson
  THEN AdapterResult(TRUE, ErrTtsPrefix \o MsgJson, <<>>, <<>>, inputs, lang)
  ELSE IF resp.has_audios /\ Len(resp.audios) > 0
  THEN LET d == b64decode(resp.audios[1]) IN
       IF d.ok
       THEN AdapterResult(FALSE, <<>>, <<>>, d.bytes, inputs, lang)
       ELSE AdapterResult(TRUE, ErrTtsPrefix \o MsgPadding, <<>>, <<>>, inputs, lang)
  ELSE AdapterResult(FALSE, <<>>, <<>>, resp.content, inputs, lang)

\* tts_from_text(text, lang): the audio bytes, or Exception("TTS Error: ...")
tts_from_text(text, lang, resp) ==
  LET inputs == <<Summarize(text)>> IN
  IF resp.neterr
  THEN AdapterResult(TRUE, ErrTtsPrefix \o MsgTimeout, <<>>, <<>>, inputs, lang)
  ELSE IF raise_for_status(resp)
  THEN AdapterResult(TRUE, ErrTtsPrefix \o MsgHttp, <<>>, <<>>, inputs, lang)
  ELSE DecodeAudio(resp, inputs, lang)

----------------------------------------------------------------------------
(* State *)

VARIABLES
  API_KEY_SARVAM,   \* os.getenv("SARVAM_API_KEY")
  GOOGLE_API_KEY,   \* os.getenv("GOOGLE_API_KEY")
  pc,               \* where the script run stands
  selected_lang,    \* the selectbox value, "" before it is rendered
  target_lang_code, \* lang_options[selected_lang]
  audio_data,       \* what mic_recorder returned
  text_input,       \* the text area's content
  button,           \* whether "Get Response" was pressed
  user_text,        \* the transcript (voice handler)
  reply,            \* the generated reply of the handler that is running
  ui,               \* the elements rendered in this run, in order
  calls             \* the adapter calls of this run, in order

vars == << API_KEY_SARVAM, GOOGLE_API_KEY, pc, selected_lang, target_lang_code,
           audio_data, text_input, button, user_text, reply, ui, calls >>

\* os.getenv: unset (None), set to the empty string, or set to a key
EnvValues == { [set |-> FALSE, value |-> ""], [set |-> TRUE, value |-> ""],
               [set |-> TRUE, value |-> "key"] }

\* Python truthiness of an os.getenv result
Truthy(k) == k.set /\ k.value # ""

\* mic_recorder: None, or a dict with the recorded bytes
AudioInputs == { [recorded |-> FALSE, bytes |-> <<>>], [recorded |-> TRUE, bytes |-> WavBytes] }

\* what the user may have typed
TextInputs == { <<>>, <<" ", "\t">>, Hello }

Element(kind, label, body, bytes) ==
  [kind |-> kind, label |-> label, body |-> body, bytes |-> bytes]

NoHttp == HttpResponse(FALSE, 0, <<>>, FALSE, FALSE, <<>>, FALSE, <<>>, FALSE, <<>>)

Call(path, fn, text_in, resp, r) ==
  [path |-> path, fn |-> fn, text_in |-> text_in, resp |-> resp,
   raised |-> r.raised, msg |-> r.msg, text_out |-> r.text, bytes_out |-> r.bytes,
   inputs |-> r.inputs, target_language_code |-> r.target_language_code]

Init ==
  /\ API_KEY_SARVAM \in EnvValues
  /\ GOOGLE_API_KEY \in EnvValues
  /\ pc = "check_keys"
  /\ selected_lang = ""
  /\ target_lang_code = ""
  /\ audio_data = [recorded |-> FALSE, bytes |-> <<>>]
  /\ text_input = <<>>
  /\ button = FALSE
  /\ user_text = <<>>
  /\ reply = <<>>
  /\ ui = <<>>
  /\ calls = <<>>

----------------------------------------------------------------------------
(* The controller: the top-level script of main.py *)

\* the key check with `and` for `or`
KeysMissingBoth(sarvam, google) == ~Truthy(sarvam) /\ ~Truthy(google)

\* `if not API_KEY_SARVAM or not GOOGLE_API_KEY`
KeysMissing(sarvam, google) == ~Truthy(sarvam) \/ ~Truthy(google)

\* `is not None` for truthiness
NotNone(t) == TRUE

\* `if user_text:` and `if text_input:`: Python truthiness of a string
NonEmpty(t) == t # <<>>

\* where the voice handler goes once stt_from_audio has returned or raised
AfterTranscription(r) ==
  IF ~r.raised /\ NonEmpty(r.text) THEN "voice_generate" ELSE "text"

\* what the voice handler renders once stt_from_audio has returned or raised
TranscriptionElement(r) ==
  IF r.raised
  THEN Element("error", "Error: ", r.msg, <<>>)
  ELSE IF NonEmpty(r.text)
  THEN Element("success", "**You said:** ", r.text, <<>>)
  ELSE Element("warning", "No speech detected. Please try again.", <<>>, <<>>)

\* what both handlers render once get_response has returned
ReplyElements(text) ==
  << Element("markdown", "### Assistant Response:", <<>>, <<>>),
     Element("info", "", text, <<>>) >>

\* the synthesis failure rendered with st.error
SynthesisElementError(r) ==
  IF r.raised
  THEN Element("error", "Could not generate audio: ", r.msg, <<>>)
  ELSE Element("audio", "audio/wav", <<>>, r.bytes)

\* what both handlers render once tts_from_text has returned or raised
SynthesisElement(r) ==
  IF r.raised
  THEN Element("warning", "Could not generate audio: ", r.msg, <<>>)
  ELSE Element("audio", "audio/wav", <<>>, r.bytes)

\* a handler that calls tts_from_text again when it raised
AfterSynthesisRetry(here, onward, r) == IF r.raised THEN here ELSE onward

\* where a handler goes once tts_from_text has returned or raised: on
\* to the rest of the script, never back to the call
AfterSynthesis(here, onward, r) == onward

\* a handler that leaves lang to tts_from_text's default
LangArgumentDefault(code) == DefaultLang

\* the locale a handler passes to tts_from_text
LangArgument(code) == code

\* lines 103-106
CheckApiKeys ==
  /\ pc = "check_keys"
  /\ IF KeysMissing(API_KEY_SARVAM, GOOGLE_API_KEY)
     THEN /\ ui' = Append(ui, Element("error",
                     "Please set SARVAM_API_KEY and GOOGLE_API_KEY in your .env file",
                     <<>>, <<>>))
          /\ pc' = "stopped"
     ELSE /\ ui' = ui
          /\ pc' = "widgets"
  /\ UNCHANGED << API_KEY_SARVAM, GOOGLE_API_KEY, selected_lang, target_lang_code,
                  audio_data, text_input, button, user_text, reply, calls >>

\* lines 108-131: the language selector and the recorder
RenderWidgets ==
  /\ pc = "widgets"
  /\ \E l \in Languages, a \in AudioInputs :
       /\ selected_lang' = l
       /\ target_lang_code' = lang_options[l]
       /\ audio_data' = a
  /\ pc' = "voice"
  /\ UNCHANGED << API_KEY_SARVAM, GOOGLE_API_KEY, text_input, button, user_text,
                  reply, ui, calls >>

\* line 133, nothing recorded
VoiceSkip ==
  /\ pc = "voice"
  /\ ~audio_data.recorded
  /\ pc' = "text"
  /\ UNCHANGED << API_KEY_SARVAM, GOOGLE_API_KEY, selected_lang, target_lang_code,
                  audio_data, text_input, button, user_text, reply, ui, calls >>

\* lines 133-145 and 161-165: playback, transcription, and its three outcomes
VoiceTranscribe ==
  /\ pc = "voice"
  /\ audio_data.recorded
  /\ \E resp \in SttResponses :
       LET r == stt_from_audio(audio_data.bytes, resp) IN
       /\ calls' = Append(calls, Call("voice", "stt_from_audio", <<>>, resp, r))
       /\ ui' = ui \o << Element("audio", "audio/wav", <<>>, audio_data.bytes),
                         TranscriptionElement(r) >>
       /\ user_text' = IF r.raised THEN user_text ELSE r.text
       /\ pc' = AfterTranscription(r)
  /\ UNCHANGED << API_KEY_SARVAM, GOOGLE_API_KEY, selected_lang, target_lang_code,
                  audio_data, text_input, button, reply >>

\* lines 148-152
VoiceGenerate ==
  /\ pc = "voice_generate"
  /\ \E outcome \in GenOutcomes :
       LET text == get_response(user_text, outcome) IN
       /\ calls' = Append(calls, Call("voice", "get_response", user_text, NoHttp,
                            AdapterResult(outcome.raised, outcome.text, text, <<>>, <<>>, "")))
       /\ reply' = text
       /\ ui' = ui \o ReplyElements(text)
  /\ pc' = "voice_tts"
  /\ UNCHANGED << API_KEY_SARVAM, GOOGLE_API_KEY, selected_lang, target_lang_code,
                  audio_data, text_input, button, user_text >>

\* lines 155-160
VoiceSynthesize ==
  /\ pc = "voice_tts"
  /\ \E resp \in TtsResponses :
       LET r == tts_from_text(reply, LangArgument(target_lang_code), resp) IN
       /\ calls' = Append(calls, Call("voice", "tts_from_text", reply, resp, r))
       /\ ui' = Append(ui, SynthesisElement(r))
       /\ pc' = AfterSynthesis("voice_tts", "text", r)
  /\ UNCHANGED << API_KEY_SARVAM, GOOGLE_API_KEY, selected_lang, target_lang_code,
                  audio_data, text_input, button, user_text, reply >>

\* lines 170-173 and 189-190: the text area and the submit button
TextSubmit ==
  /\ pc = "text"
  /\ \E t \in TextInputs, b \in BOOLEAN :
       /\ text_input' = t
       /\ button' = b
       /\ IF b
          THEN IF NonEmpty(t)
               THEN /\ pc' = "text_generate"
                    /\ ui' = ui
               ELSE /\ pc' = "done"
                    /\ ui' = Append(ui, Element("warning", "Please enter a message first.",
                                                <<>>, <<>>))
          ELSE /\ pc' = "done"
               /\ ui' = ui
  /\ UNCHANGED << API_KEY_SARVAM, GOOGLE_API_KEY, selected_lang, target_lang_code,
                  audio_data, user_text, reply, calls >>

\* lines 174-178
TextGenerate ==
  /\ pc = "text_generate"
  /\ \E outcome \in GenOutcomes :
       LET text == get_response(text_input, outcome) IN
       /\ calls' = Append(calls, Call("text", "get_response", text_input, NoHttp,
                            AdapterResult(outcome.raised, outcome.text, text, <<>>, <<>>, "")))
       /\ reply' = text
       /\ ui' = ui \o ReplyElements(text)
  /\ pc' = "text_tts"
  /\ UNCHANGED << API_KEY_SARVAM, GOOGLE_API_KEY, selected_lang, target_lang_code,
                  audio_data, text_input, button, user_text >>

\* lines 181-186
TextSynthesize ==
  /\ pc = "text_tts"
  /\ \E resp \in TtsResponses :
       LET r == tts_from_text(reply, LangArgument(target_lang_code), resp) IN
       /\ calls' = Append(calls, Call("text", "tts_from_text", reply, resp, r))
       /\ ui' = Append(ui, SynthesisElement(r))
       /\ pc' = AfterSynthesis("text_tts", "done", r)
  /\ UNCHANGED << API_KEY_SARVAM, GOOGLE_API_KEY, selected_lang, target_lang_code,
                  audio_data, text_input, button, user_text, reply >>

\* the next user interaction makes Streamlit run the script again from the top
Rerun ==
  /\ pc \in {"done", "stopped"}
  /\ pc' = "check_keys"
  /\ selected_lang' = ""
  /\ target_lang_code' = ""
  /\ audio_data' = [recorded |-> FALSE, bytes |-> <<>>]
  /\ text_input' = <<>>
  /\ button' = FALSE
  /\ user_text' = <<>>
  /\ reply' = <<>>
  /\ ui' = <<>>
  /\ calls' = <<>>
  /\ UNCHANGED << API_KEY_SARVAM, GOOGLE_API_KEY >>

Next ==
  \/ CheckApiKeys
  \/ RenderWidgets
  \/ VoiceSkip
  \/ VoiceTranscribe
  \/ VoiceGenerate
  \/ VoiceSynthesize
  \/ TextSubmit
  \/ TextGenerate
  \/ TextSynthesize
  \/ Rerun

Spec == Init /\ [][Next]_vars

----------------------------------------------------------------------------
(* Vocabulary of the properties *)

CallIdx == 1..Len(calls)
UiIdx   == 1..Len(ui)

\* the calls a handler made to an adapter, by position in the log
CallsOf(path, fn) == { i \in CallIdx : calls[i].path = path /\ calls[i].fn = fn }

Paths == {"voice", "text"}

\* the handler of that path has run to its end in this script run
HandlerEnded(path) ==
  IF path = "voice"
  THEN pc \in {"text", "text_generate", "text_tts", "done"}
  ELSE pc = "done"

\* the handler of that path is about to call tts_from_text
AtSynthesis(path) == pc = (IF path = "voice" THEN "voice_tts" ELSE "text_tts")

Shown(kind, label, body) ==
  \E j \in UiIdx : ui[j].kind = kind /\ ui[j].label = label /\ ui[j].body = body

Whitespace == {" ", "\t", "\n"}

IsBlank(t) == \A i \in 1..Len(t) : t[i] \in Whitespace

\* an HTTP response the services call successful
Successful(resp) == ~resp.neterr /\ resp.status >= 200 /\ resp.status < 300

----------------------------------------------------------------------------
(* C1: a typed submission that is empty or only whitespace shows the         *)
(* "please enter a message" notice and never reaches get_response.           *)
C1_BlankSubmissionNotGenerated ==
  (button /\ IsBlank(text_input)) =>
     /\ pc = "done"
     /\ Shown("warning", "Please enter a message first.", <<>>)
     /\ CallsOf("text", "get_response") = {}

----------------------------------------------------------------------------
(* C2: a successful synthesis response {audios: [b64, ...]} yields the       *)
(* RFC 4648 decoding of the first entry; a successful response of raw audio  *)
(* bytes without an `audios` field yields those bytes, and no TTS failure.   *)
C2_DecodedOrRawAudio ==
  \A i \in CallIdx :
    (calls[i].fn = "tts_from_text" /\ Successful(calls[i].resp)) =>
       /\ (calls[i].resp.has_audios /\ Len(calls[i].resp.audios) > 0) =>
            \A b \in AudioSamples \cup {<<82, 73>>} :
               calls[i].resp.audios[1] = RFC4648Encode(b) =>
                  ~calls[i].raised /\ calls[i].bytes_out = b
       /\ ~calls[i].resp.has_audios =>
            ~calls[i].raised /\ calls[i].bytes_out = calls[i].resp.content

----------------------------------------------------------------------------
(* C3: when stt_from_audio returns the empty string, the voice handler shows *)
(* "No speech detected" and ends without calling get_response or             *)
(* tts_from_text.                                                            *)
C3_EmptyTranscriptStops ==
  \A i \in CallsOf("voice", "stt_from_audio") :
    (~calls[i].raised /\ calls[i].text_out = <<>>) =>
       /\ Shown("warning", "No speech detected. Please try again.", <<>>)
       /\ HandlerEnded("voice")
       /\ CallsOf("voice", "get_response") = {}
       /\ CallsOf("voice", "tts_from_text") = {}

C3_Witness ==
  /\ pc = "done"
  /\ \E i \in CallsOf("voice", "stt_from_audio") :
       ~calls[i].raised /\ calls[i].text_out = <<>> /\ calls[i].resp.has_transcript
  /\ CallsOf("text", "tts_from_text") # {}

----------------------------------------------------------------------------
(* C4: a reply longer than 500 characters goes into the synthesis request as *)
(* its first 500 characters followed by "...", and no submitted text is      *)
(* longer than 503 characters.                                               *)
C4_TruncatedTo500PlusEllipsis ==
  \A i \in CallIdx :
    calls[i].fn = "tts_from_text" =>
       /\ Len(calls[i].inputs) = 1
       /\ Len(calls[i].inputs[1]) <= 503
       /\ Len(calls[i].text_in) > 500 =>
            /\ Len(calls[i].inputs[1]) = 503
            /\ \A k \in 1..500 : calls[i].inputs[1][k] = calls[i].text_in[k]
            /\ \A k \in 501..503 : calls[i].inputs[1][k] = "."

C4_Witness ==
  \E i \in CallIdx :
    /\ calls[i].fn = "tts_from_text"
    /\ Len(calls[i].text_in) > 503
    /\ Len(calls[i].inputs[1]) = 503

----------------------------------------------------------------------------
(* C5: when tts_from_text raises, on either path, the reply is already       *)
(* rendered and stays rendered, the failure is shown as a warning and not as *)
(* an error, and the handler ends.                                           *)
C5_SynthesisFailureIsWarning ==
  \A p \in Paths : \A i \in CallsOf(p, "tts_from_text") :
    calls[i].raised =>
       /\ \E j \in UiIdx :
            /\ ui[j].kind = "warning"
            /\ ui[j].label = "Could not generate audio: "
            /\ ui[j].body = calls[i].msg
            /\ j > 1
            /\ ui[j - 1].kind = "info"
            /\ ui[j - 1].body = calls[i].text_in
       /\ ~\E j \in UiIdx : ui[j].kind = "error" /\ ui[j].body = calls[i].msg
       /\ HandlerEnded(p)

C5_Witness ==
  /\ pc = "done"
  /\ \E i \in CallsOf("voice", "tts_from_text") : calls[i].raised
  /\ \E i \in CallsOf("text", "tts_from_text") : calls[i].raised

----------------------------------------------------------------------------
(* C6: when the generation call fails, get_response returns a message that   *)
(* begins with "Error generating response:", the handler renders it as the   *)
(* reply and goes on to call tts_from_text with that message.                *)
C6_GenerationFailureDegrades ==
  \A p \in Paths : \A i \in CallsOf(p, "get_response") :
    calls[i].raised =>
       /\ StartsWith(calls[i].text_out,
            <<"E","r","r","o","r"," ","g","e","n","e","r","a","t","i","n","g"," ",
              "r","e","s","p","o","n","s","e",":">>)
       /\ Shown("info", "", calls[i].text_out)
       /\ ~\E j \in UiIdx : ui[j].kind = "error" /\ ui[j].body = calls[i].msg
       /\ \/ AtSynthesis(p) /\ reply = calls[i].text_out
          \/ \E k \in CallsOf(p, "tts_from_text") :
               k > i /\ calls[k].text_in = calls[i].text_out

C6_Witness ==
  /\ pc = "done"
  /\ \A p \in Paths :
       \E i \in CallsOf(p, "get_response") : \E k \in CallsOf(p, "tts_from_text") :
          calls[i].raised /\ calls[k].text_in = calls[i].text_out

----------------------------------------------------------------------------
----------------------------------------------------------------------------
(* C8: when either API key is absent (or empty) the run shows an error and   *)
(* halts: no widget is read and no adapter is called.                        *)
C8_MissingKeyHalts ==
  (~API_KEY_SARVAM.set \/ API_KEY_SARVAM.value = ""
     \/ ~GOOGLE_API_KEY.set \/ GOOGLE_API_KEY.value = "") =>
     /\ pc \in {"check_keys", "stopped"}
     /\ calls = <<>>
     /\ selected_lang = "" /\ target_lang_code = ""
     /\ ~audio_data.recorded /\ ~button /\ text_input = <<>>
     /\ pc = "stopped" =>
          /\ Len(ui) = 1
          /\ ui[1].kind = "error"

C8_Witness ==
  /\ pc = "stopped"
  /\ API_KEY_SARVAM = [set |-> TRUE, value |-> "key"]
  /\ ~GOOGLE_API_KEY.set
  /\ Len(ui) = 1

----------------------------------------------------------------------------
(* C9: every synthesis call of a run, on either path, carries as             *)
(* target_language_code exactly the locale code of the selected language.    *)
LocaleTable ==
  { <<"Bengali", "bn-IN">>, <<"Hindi", "hi-IN">>, <<"English", "en-IN">>,
    <<"Tamil", "ta-IN">>, <<"Telugu", "te-IN">>, <<"Kannada", "kn-IN">>,
    <<"Malayalam", "ml-IN">>, <<"Marathi", "mr-IN">>, <<"Gujarati", "gu-IN">>,
    <<"Punjabi", "pa-IN">> }

C9_LocaleRoutedUnchanged ==
  /\ Cardinality(Languages) = 10
  /\ \A i \in CallIdx :
       calls[i].fn = "tts_from_text" =>
          <<selected_lang, calls[i].target_language_code>> \in LocaleTable

C9_Witness ==
  /\ selected_lang = "Punjabi"
  /\ \A p \in Paths :
       \E i \in CallsOf(p, "tts_from_text") : calls[i].target_language_code = "pa-IN"

----------------------------------------------------------------------------
(* C10: within one handler the adapters are called in the order              *)
(* transcription, generation, synthesis, each at most once; generation on    *)
(* the voice path only after a non-empty transcript came back, synthesis     *)
(* only after the reply came back and was rendered, and nothing is called    *)
(* again after it failed.                                                    *)
FnRank(fn) ==
  CASE fn = "stt_from_audio" -> 1
    [] fn = "get_response"   -> 2
    [] fn = "tts_from_text"  -> 3

C10_SequentialAtMostOnce ==
  /\ \A i, j \in CallIdx :
       (i < j /\ calls[i].path = calls[j].path) =>
          /\ FnRank(calls[i].fn) < FnRank(calls[j].fn)
          /\ calls[i].fn # "get_response" => ~calls[i].raised
  /\ CallsOf("text", "stt_from_audio") = {}
  /\ \A i \in CallsOf("voice", "get_response") :
       \E j \in CallsOf("voice", "stt_from_audio") :
          /\ j < i
          /\ ~calls[j].raised
          /\ calls[j].text_out # <<>>
          /\ calls[i].text_in = calls[j].text_out
  /\ \A p \in Paths : \A i \in CallsOf(p, "tts_from_text") :
       /\ \E j \in CallsOf(p, "get_response") :
            j < i /\ calls[i].text_in = calls[j].text_out
       /\ Shown("info", "", calls[i].text_in)
  /\ \A p \in Paths : AtSynthesis(p) =>
       /\ CallsOf(p, "get_response") # {}
       /\ Shown("info", "", reply)

C10_Witness ==
  /\ pc = "done"
  /\ Len(calls) = 5
  /\ calls[3].raised
  /\ calls[5].raised

====
